---- MODULE Spec2Model ----
(***************************************************************************)
(* A model of src/src/index.tsx: the NostrProvider relay pool and the      *)
(* useNostrEvents subscription hook.                                       *)
(*                                                                         *)
(* One action is one handler of the program (a relay lifecycle signal, an  *)
(* event delivered on a subscription, a call of a function the library     *)
(* returns) together with the React update it triggers: the state setters  *)
(* it calls, the re-render that follows them and the effects of that       *)
(* re-render (cleanup of the previous effect, then the effect itself).     *)
(*                                                                         *)
(* Relay handles are the positions of relayUrls (one relayInit per entry), *)
(* callbacks, filters and event ids are small integers, 0 stands for       *)
(* null / undefined.                                                       *)
(***************************************************************************)
EXTENDS Integers, Sequences, FiniteSets

(* ------------------------------ bounds --------------------------------- *)

\* Distinct event ids the relays can deliver.
NumEvents == 2

\* Cap on the length of the `events` state (the code never trims it).
MaxEvents == 3

(* ------------------------------ values --------------------------------- *)

\* The relayUrls lists tried: two distinct urls, and one url listed twice.
RelayUrlLists == {<<"a", "b">>, <<"a", "a">>}

EventIds == 1..NumEvents

\* The callbacks an application registers.
Callbacks == {1, 2}

\* The filter values the caller passes.
Filters == {1, 2}

\* null (callback variables) and undefined (the unsubscribe state).
Null == 0

Undefined == 0

\* An event's created_at; the id is the hash of the event's content, so it
\* determines created_at: 100 for the odd ids, 200 for the even ones.
CreatedAt(id) == 100 * (2 - (id % 2))

NostrEvent(id) == [id |-> id, created_at |-> CreatedAt(id)]

Range(s) == {s[i] : i \in DOMAIN s}

\* Identities of Sub objects: enough for the live subscriptions of two
\* effect runs and the one the unsubscribe state refers to.
SubIds == 1..5

NoSub == [relay |-> 0, filter |-> 0, live |-> FALSE]

VARIABLES
  relayUrls,            \* prop of NostrProvider
  filter,               \* prop of useNostrEvents (current render)
  subscribeFilter,      \* `filter` captured by the memoized subscribe closure
  isLoading,            \* NostrProvider state
  connectedRelays,      \* NostrProvider state: sequence of relay handles
  isFirstRender,        \* NostrProvider ref
  conn,                 \* transport state of each relay handle
  onConnectCallback,    \* <<variable of the first render, variable of the latest>>
  onDisconnectCallback, \* likewise
  providerRender,       \* 1: the context value is the first render's, 2: a later one's
  events,               \* useNostrEvents state (raw, newest first)
  unsubscribe,          \* useNostrEvents state: Undefined or the sub its closure holds
  subs,                 \* Sub objects created by relay.sub
  effectSubs,           \* `subs` held by the cleanup closure of the last effect run
  returnedEvents,       \* `events` returned by the last render of the hook
  onEventCallback,      \* <<variable of the first render, variable of the latest>>
  hookRender,           \* 1: the hook's returned value is the first render's, 2: later
  registered,           \* history: the latest callback registered, per kind
  delivered,            \* history: the ids of the events delivered so far
  lastOp,               \* history: the last handler run
  calls                 \* history: the external calls the last handler made, in order

vars == <<relayUrls, filter, subscribeFilter, isLoading, connectedRelays,
          isFirstRender, conn, onConnectCallback, onDisconnectCallback,
          providerRender, events, unsubscribe, subs, effectSubs, returnedEvents,
          onEventCallback, hookRender, registered, delivered, lastOp, calls>>

poolVars == <<isLoading, connectedRelays, isFirstRender, conn>>

poolCbVars == <<onConnectCallback, onDisconnectCallback, providerRender>>

hookVars == <<events, unsubscribe, subs, effectSubs, returnedEvents>>

hookCbVars == <<onEventCallback, hookRender>>

propVars == <<relayUrls, filter, subscribeFilter>>

\* The relay handles: one relayInit per entry of relayUrls.
Relays == DOMAIN relayUrls

Op(op, relay, arg, threw, ret) ==
  [op |-> op, relay |-> relay, arg |-> arg, threw |-> threw, ret |-> ret]

\* An external call: on a relay (or a sub of it), with an argument (a filter,
\* a sub, an event id); cb is the callback called, when it is one.
Call(call, relay, arg) ==
  [call |-> call, relay |-> relay, arg |-> arg, cb |-> Null]

(* --------------------------- pure helpers ------------------------------ *)

\* uniqBy of ./utils: the elements of arr, one per key, in the order of arr;
\* key maps an element to the value of the property compared.
uniqBy(arr, key) ==
  LET keep == {i \in DOMAIN arr : \A j \in 1..(i - 1) : key[arr[j]] # key[arr[i]]}
      nth[k \in 1..Cardinality(keep)] ==
        CHOOSE i \in keep : Cardinality({j \in keep : j < i}) = k - 1
  IN [k \in 1..Cardinality(keep) |-> arr[nth[k]]]

\* const uniqEvents = events.length > 0 ? uniqBy(events, "id") : []
uniqEvents_NoDedup(evs) == evs

uniqEvents(evs) ==
  IF Len(evs) > 0 THEN uniqBy(evs, [e \in Range(evs) |-> e.id]) ELSE <<>>

\* uniqEvents.sort((a, b) => b.created_at - a.created_at): a stable sort,
\* element i goes after every element that compares before it.
sortedEvents_Ascending(u) ==
  LET pos(i) == 1 + Cardinality({j \in DOMAIN u :
                      \/ u[j].created_at < u[i].created_at
                      \/ u[j].created_at = u[i].created_at /\ j < i})
  IN [k \in DOMAIN u |-> u[CHOOSE i \in DOMAIN u : pos(i) = k]]

sortedEvents(u) ==
  LET pos(i) == 1 + Cardinality({j \in DOMAIN u :
                      \/ u[j].created_at - u[i].created_at > 0
                      \/ u[j].created_at - u[i].created_at = 0 /\ j < i})
  IN [k \in DOMAIN u |-> u[CHOOSE i \in DOMAIN u : pos(i) = k]]

\* setEvents((_events) => [event, ..._events])
setEvents_Stale(prev, event) == <<event>>

setEvents(prev, event) == <<event>> \o prev

\* The hook's render: what it returns as `events`.
Render(evs) == sortedEvents(uniqEvents(evs))

\* setConnectedRelays((prev) => uniqBy([...prev, relay], "url"))
relayConnected_NoUniq(prev, relay, urls) == Append(prev, relay)

relayConnected(prev, relay, urls) ==
  uniqBy(Append(prev, relay), urls)

\* setConnectedRelays((prev) => prev.filter((r) => r.url !== relayUrl))
relayDisconnected(prev, relay, urls) ==
  SelectSeq(prev, LAMBDA r : urls[r] # urls[relay])

\* onConnectCallback?.(relay) and its like: the call, when the variable is set.
Notify(kind, cb, relay, arg) ==
  IF cb = Null THEN <<>> ELSE <<[Call(kind, relay, arg) EXCEPT !.cb = cb]>>

\* connectedRelays.map((relay) => relay.publish(event))
publish_AllRelays(rels, event) ==
  [i \in Relays |-> Call("relay.publish", i, event)]

publish(rels, event) ==
  [i \in DOMAIN rels |-> Call("relay.publish", rels[i], event)]

(* ------------------------ subscriptions (hook) -------------------------- *)

\* _unsubscribe(sub): sub.unsub(), which ends the subscription (idempotent).
_unsubscribe(S, s) == [S EXCEPT ![s].live = FALSE]

\* The effect's cleanup: subs.forEach((sub) => { _unsubscribe(sub) })
cleanup_None(S, held) == S

cleanup_FirstOnly(S, held) ==
  IF Len(held) > 0 THEN _unsubscribe(S, held[1]) ELSE S

cleanup(S, held) ==
  [s \in SubIds |-> IF s \in Range(held) THEN _unsubscribe(S, s)[s] ELSE S[s]]

cleanupCalls(S, held) ==
  [i \in DOMAIN held |-> Call("sub.unsub", S[held[i]].relay, held[i])]

\* Sub objects no closure refers to any more and that are not live are gone.
Collect(S, refs) ==
  [s \in SubIds |-> IF S[s].live \/ s \in refs THEN S[s] ELSE NoSub]

\* The identity of the i-th Sub object created next.
newSub(S, i) ==
  LET free == {s \in SubIds : S[s] = NoSub}
  IN IF Cardinality(free) >= i
       THEN CHOOSE s \in free : Cardinality({t \in free : t < s}) = i - 1
       ELSE CHOOSE s \in SubIds : \A t \in SubIds : t <= s

\* subscribe(relay): const sub = relay.sub([filter]), with the filter of the
\* render that created the memoized closure.
subscribe_Closed(S, id, relay, f) ==
  [S EXCEPT ![id] = [relay |-> relay, filter |-> f, live |-> FALSE]]

subscribe(S, id, relay, f) ==
  [S EXCEPT ![id] = [relay |-> relay, filter |-> f, live |-> TRUE]]

\* setUnsubscribe(() => unsubscribeFunc), once per subscribe call of an
\* effect run: the state ends as the closure over the last sub created.
setUnsubscribe(prev, ids) ==
  IF Len(ids) > 0 THEN ids[Len(ids)] ELSE prev

\* One run of the hook's effect for the connected relays `rels`: the cleanup
\* of the previous run, then connectedRelays.map((relay) => subscribe(relay)).
EffectRun(S, held, unsubState, rels, f) ==
  LET S1 == Collect(cleanup(S, held),
                    IF Len(rels) > 0 THEN {} ELSE {unsubState})
      ids == [i \in DOMAIN rels |-> newSub(S1, i)]
      S2 == [s \in SubIds |->
               IF \E i \in DOMAIN rels : ids[i] = s
                 THEN subscribe(S1, s, rels[CHOOSE i \in DOMAIN rels : ids[i] = s], f)[s]
                 ELSE S1[s]]
      u == setUnsubscribe(unsubState, ids)
  IN [subs |-> Collect(S2, Range(ids) \cup {u}),
      effectSubs |-> ids,
      unsubscribe |-> u,
      calls |-> cleanupCalls(S, held)
                  \o [i \in DOMAIN rels |-> Call("relay.sub", rels[i], f)]]

LiveSubs == {s \in SubIds : subs[s].live}

(* ------------------------------- Init ----------------------------------- *)

Init ==
  /\ relayUrls \in RelayUrlLists
  /\ filter = 1
  /\ subscribeFilter = filter
  /\ isLoading = TRUE
  /\ connectedRelays = <<>>
  /\ isFirstRender = TRUE
  /\ conn = [r \in Relays |-> "none"]
  /\ onConnectCallback = <<Null, Null>>
  /\ onDisconnectCallback = <<Null, Null>>
  /\ providerRender = 1
  /\ events = <<>>
  /\ unsubscribe = Undefined
  /\ subs = [s \in SubIds |-> NoSub]
  /\ effectSubs = <<>>
  /\ returnedEvents = <<>>
  /\ onEventCallback = <<Null, Null>>
  /\ hookRender = 1
  /\ registered = [onConnect |-> Null, onDisconnect |-> Null, onEvent |-> Null]
  /\ delivered = {}
  /\ lastOp = Op("init", 0, 0, FALSE, 0)
  /\ calls = <<>>

(* ----------------------------- re-renders ------------------------------- *)

\* A re-render of NostrProvider: `let onConnectCallback = null` and
\* `let onDisconnectCallback = null` are fresh variables of the new render,
\* and the new context value's onConnect / onDisconnect write to them.
ProviderRerender ==
  /\ providerRender' = 2
  /\ onConnectCallback' = <<onConnectCallback[1], Null>>
  /\ onDisconnectCallback' = <<onDisconnectCallback[1], Null>>

\* A re-render of useNostrEvents: a fresh `let onEventCallback = null`, and
\* the events it returns are computed from the state.
HookRerender(evs) ==
  /\ hookRender' = 2
  /\ onEventCallback' = <<onEventCallback[1], Null>>
  /\ returnedEvents' = Render(evs)

\* The hook's effect runs again (its dependencies changed).
HookEffect(rels) ==
  LET eff == EffectRun(subs, effectSubs, unsubscribe, rels, subscribeFilter)
  IN /\ subs' = eff.subs
     /\ effectSubs' = eff.effectSubs
     /\ unsubscribe' = eff.unsubscribe

HookEffectCalls(rels) ==
  EffectRun(subs, effectSubs, unsubscribe, rels, subscribeFilter).calls

(* ------------------------------ actions --------------------------------- *)

\* connectToRelays: relayInit and connect, once per entry of relayUrls.
connectToRelays(urls) == [r \in DOMAIN urls |-> "connecting"]

\* The body of NostrProvider's mount effect, on the ref, the transport
\* states and the relayInit calls made so far.
mountEffect(m, urls) ==
  IF m.isFirstRender
    THEN [isFirstRender |-> FALSE,
          conn |-> connectToRelays(urls),
          calls |-> m.calls \o [r \in DOMAIN urls |-> Call("relayInit", r, 0)]]
    ELSE m

\* NostrProvider mounts: its effect runs once, or twice in strict mode.
MountEffect(strict) ==
  /\ \A r \in Relays : conn[r] = "none"
  /\ LET m0 == [isFirstRender |-> isFirstRender, conn |-> conn, calls |-> <<>>]
         m1 == mountEffect(m0, relayUrls)
         m2 == IF strict THEN mountEffect(m1, relayUrls) ELSE m1
     IN /\ isFirstRender' = m2.isFirstRender
        /\ conn' = m2.conn
        /\ calls' = m2.calls
  /\ lastOp' = Op("mount", 0, 0, FALSE, 0)
  /\ UNCHANGED <<propVars, isLoading, connectedRelays, poolCbVars, hookVars,
                 hookCbVars, registered, delivered>>

\* relay.on("connect", ...)
Connect(r) ==
  /\ conn[r] \in {"connecting", "closed"}
  /\ conn' = [conn EXCEPT ![r] = "connected"]
  /\ isLoading' = FALSE
  /\ connectedRelays' = relayConnected(connectedRelays, r, relayUrls)
  /\ ProviderRerender
  /\ HookEffect(connectedRelays')
  /\ HookRerender(events)
  /\ calls' = Notify("onConnect", onConnectCallback[1], r, 0)
                \o HookEffectCalls(connectedRelays')
  /\ lastOp' = Op("connect", r, 0, FALSE, 0)
  /\ UNCHANGED <<propVars, isFirstRender, events, registered, delivered>>

\* relay.on("disconnect", ...)
Disconnect_ResetsLoading(r) ==
  /\ conn[r] \in {"connecting", "connected"}
  /\ conn' = [conn EXCEPT ![r] = "closed"]
  /\ connectedRelays' = relayDisconnected(connectedRelays, r, relayUrls)
  /\ isLoading' = (connectedRelays' = <<>>)
  /\ ProviderRerender
  /\ HookEffect(connectedRelays')
  /\ HookRerender(events)
  /\ calls' = Notify("onDisconnect", onDisconnectCallback[1], r, 0)
                \o HookEffectCalls(connectedRelays')
  /\ lastOp' = Op("disconnect", r, 0, FALSE, 0)
  /\ UNCHANGED <<propVars, isFirstRender, events, registered, delivered>>

Disconnect(r) ==
  /\ conn[r] \in {"connecting", "connected"}
  /\ conn' = [conn EXCEPT ![r] = "closed"]
  /\ connectedRelays' = relayDisconnected(connectedRelays, r, relayUrls)
  /\ ProviderRerender
  /\ HookEffect(connectedRelays')
  /\ HookRerender(events)
  /\ calls' = Notify("onDisconnect", onDisconnectCallback[1], r, 0)
                \o HookEffectCalls(connectedRelays')
  /\ lastOp' = Op("disconnect", r, 0, FALSE, 0)
  /\ UNCHANGED <<propVars, isLoading, isFirstRender, events, registered, delivered>>

\* relay.on("error", ...): logs only.
Error(r) ==
  /\ conn[r] # "none"
  /\ lastOp' = Op("error", r, 0, FALSE, 0)
  /\ calls' = <<>>
  /\ UNCHANGED <<propVars, poolVars, poolCbVars, hookVars, hookCbVars,
                 registered, delivered>>

\* sub.on("event", ...) of a live subscription on a connected relay.
Deliver(s, id) ==
  /\ subs[s].live
  /\ conn[subs[s].relay] = "connected"
  /\ Len(events) < MaxEvents
  /\ events' = setEvents(events, NostrEvent(id))
  /\ HookRerender(events')
  /\ delivered' = delivered \cup {id}
  /\ calls' = Notify("onEvent", onEventCallback[1], subs[s].relay, id)
  /\ lastOp' = Op("event", subs[s].relay, id, FALSE, 0)
  /\ UNCHANGED <<propVars, poolVars, poolCbVars, unsubscribe, subs, effectSubs,
                 registered>>

\* publish(event), called through the context value.
Publish(id) ==
  /\ calls' = publish(connectedRelays, id)
  /\ lastOp' = Op("publish", 0, id, FALSE, Len(calls'))
  /\ UNCHANGED <<propVars, poolVars, poolCbVars, hookVars, hookCbVars,
                 registered, delivered>>

\* The caller calls the `unsubscribe` the hook returned. The state starts as
\* undefined (useState calls its initialiser), and calling undefined throws.
Unsubscribe ==
  /\ IF unsubscribe = Undefined
       THEN /\ lastOp' = Op("unsubscribe", 0, 0, TRUE, 0)
            /\ calls' = <<>>
            /\ UNCHANGED subs
       ELSE /\ lastOp' = Op("unsubscribe", subs[unsubscribe].relay, 0, FALSE, 0)
            /\ calls' = <<Call("sub.unsub", subs[unsubscribe].relay, unsubscribe)>>
            /\ subs' = _unsubscribe(subs, unsubscribe)
  /\ UNCHANGED <<propVars, poolVars, poolCbVars, events, unsubscribe, effectSubs,
                 returnedEvents, hookCbVars, registered, delivered>>

\* The caller renders the hook with another filter: filterBase64 changes,
\* the effect runs again, calling the memoized subscribe.
ChangeFilter(f) ==
  /\ f # filter
  /\ filter' = f
  /\ HookEffect(connectedRelays)
  /\ HookRerender(events)
  /\ calls' = HookEffectCalls(connectedRelays)
  /\ lastOp' = Op("filter", 0, f, FALSE, 0)
  /\ UNCHANGED <<relayUrls, subscribeFilter, poolVars, poolCbVars, events,
                 registered, delivered>>

\* value.onConnect(cb) of the current context value.
OnConnect(cb) ==
  /\ IF cb # Null
       THEN onConnectCallback' = [onConnectCallback EXCEPT ![providerRender] = cb]
       ELSE UNCHANGED onConnectCallback
  /\ registered' = IF cb # Null THEN [registered EXCEPT !.onConnect = cb] ELSE registered
  /\ lastOp' = Op("onConnect", 0, cb, FALSE, 0)
  /\ calls' = <<>>
  /\ UNCHANGED <<propVars, poolVars, onDisconnectCallback, providerRender,
                 hookVars, hookCbVars, delivered>>

\* value.onDisconnect(cb) of the current context value.
OnDisconnect(cb) ==
  /\ IF cb # Null
       THEN onDisconnectCallback' = [onDisconnectCallback EXCEPT ![providerRender] = cb]
       ELSE UNCHANGED onDisconnectCallback
  /\ registered' = IF cb # Null THEN [registered EXCEPT !.onDisconnect = cb] ELSE registered
  /\ lastOp' = Op("onDisconnect", 0, cb, FALSE, 0)
  /\ calls' = <<>>
  /\ UNCHANGED <<propVars, poolVars, onConnectCallback, providerRender,
                 hookVars, hookCbVars, delivered>>

\* onEvent(cb) of the value the hook returned last.
OnEvent(cb) ==
  /\ IF cb # Null
       THEN onEventCallback' = [onEventCallback EXCEPT ![hookRender] = cb]
       ELSE UNCHANGED onEventCallback
  /\ registered' = IF cb # Null THEN [registered EXCEPT !.onEvent = cb] ELSE registered
  /\ lastOp' = Op("onEvent", 0, cb, FALSE, 0)
  /\ calls' = <<>>
  /\ UNCHANGED <<propVars, poolVars, poolCbVars, hookVars, hookRender, delivered>>

(* --------------------------- specifications ----------------------------- *)

\* The hook: relay signals, deliveries, unsubscribe and filter changes.
NextFeed ==
  \/ \E strict \in BOOLEAN : MountEffect(strict)
  \/ \E r \in Relays : Connect(r)
  \/ \E r \in Relays : Disconnect(r)
  \/ \E s \in SubIds, id \in EventIds : Deliver(s, id)
  \/ Unsubscribe
  \/ \E f \in Filters : ChangeFilter(f)

\* The pool: relay signals and publish.
NextPool ==
  \/ \E strict \in BOOLEAN : MountEffect(strict)
  \/ \E r \in Relays : Connect(r)
  \/ \E r \in Relays : Disconnect(r)
  \/ \E r \in Relays : Error(r)
  \/ \E id \in EventIds : Publish(id)

\* The pool's lifecycle observers: relay signals and registrations.
NextObservers ==
  \/ \E strict \in BOOLEAN : MountEffect(strict)
  \/ \E r \in Relays : Connect(r)
  \/ \E r \in Relays : Disconnect(r)
  \/ \E cb \in Callbacks \cup {Null} : OnConnect(cb)
  \/ \E cb \in Callbacks \cup {Null} : OnDisconnect(cb)

\* The hook's event observer: deliveries and registrations.
NextEvents ==
  \/ \E strict \in BOOLEAN : MountEffect(strict)
  \/ \E r \in Relays : Connect(r)
  \/ \E s \in SubIds, id \in EventIds : Deliver(s, id)
  \/ \E cb \in Callbacks \cup {Null} : OnEvent(cb)

Next ==
  \/ NextFeed
  \/ NextPool
  \/ NextObservers
  \/ NextEvents

Spec == Init /\ [][Next]_vars

SpecFeed == Init /\ [][NextFeed]_vars

SpecPool == Init /\ [][NextPool]_vars

SpecObservers == Init /\ [][NextObservers]_vars

SpecEvents == Init /\ [][NextEvents]_vars

(* ------------------------------ claims ---------------------------------- *)

Ids(evs) == {evs[i].id : i \in DOMAIN evs}

CallsOf(kind, relay) ==
  {i \in DOMAIN calls : calls[i].call = kind /\ calls[i].relay = relay}

\* C1: the events the hook returns never hold two events with the same id,
\* whatever was delivered, by whichever relays, before or after a
\* re-subscription.
C1_NoDuplicateIds ==
  \A i, j \in DOMAIN returnedEvents :
    returnedEvents[i].id = returnedEvents[j].id => i = j

\* An event was delivered more than once and the feed holds several events.
C1_Witness ==
  /\ \E i, j \in DOMAIN events : i # j /\ events[i].id = events[j].id
  /\ Len(returnedEvents) > 1

\* C2: the events the hook returns are sorted by non-increasing created_at.
C2_SortedDescending ==
  \A i \in 1..(Len(returnedEvents) - 1) :
    returnedEvents[i].created_at >= returnedEvents[i + 1].created_at

\* An older event arrived after a newer one, so the state is not in feed order.
C2_Witness ==
  /\ \E i \in 1..(Len(events) - 1) : events[i].created_at < events[i + 1].created_at
  /\ Len(returnedEvents) > 1

\* C3: the feed holds exactly the events delivered, one per id; the spec's
\* example (1 from A, 1 from B, then 2) gives the feed [2, 1].
C3_FeedIsDeliveredSet ==
  /\ Ids(returnedEvents) = delivered
  /\ Len(returnedEvents) = Cardinality(delivered)
  /\ \A i \in DOMAIN returnedEvents :
       returnedEvents[i] = NostrEvent(returnedEvents[i].id)
  /\ events = <<NostrEvent(2), NostrEvent(1), NostrEvent(1)>>
       => returnedEvents = <<NostrEvent(2), NostrEvent(1)>>

\* The example's end: both relays subscribed, 1 delivered twice, then 2 from B.
C3_Witness ==
  /\ events = <<NostrEvent(2), NostrEvent(1), NostrEvent(1)>>
  /\ lastOp.op = "event" /\ lastOp.relay = 2
  /\ \A r \in Relays : \E s \in LiveSubs : subs[s].relay = r

\* C4: a disconnect signal of a relay cancels every live subscription on it
\* (sub.unsub is called and none stays live); live subscriptions exist only
\* on relays of connectedRelays, and events come only from those.
C4_DisconnectCancels ==
  /\ [][\A r \in Relays :
          (lastOp'.op = "disconnect" /\ lastOp'.relay = r /\ conn[r] # conn'[r]) =>
            /\ \A s \in LiveSubs :
                 subs[s].relay = r =>
                   \E i \in DOMAIN calls' :
                     calls'[i] = Call("sub.unsub", r, s)
            /\ \A s \in SubIds : subs'[s].live => subs'[s].relay # r]_vars
  /\ [](\A s \in LiveSubs : \E i \in DOMAIN connectedRelays :
                              connectedRelays[i] = subs[s].relay)
  /\ [](lastOp.op = "event" =>
          \E i \in DOMAIN connectedRelays : connectedRelays[i] = lastOp.relay)

\* A relay with a subscription has just disconnected; another one stays.
C4_Witness ==
  /\ lastOp.op = "disconnect"
  /\ CallsOf("sub.unsub", lastOp.relay) # {}
  /\ LiveSubs # {}

\* C5: while the filter stays the same, no step removes an id from the feed.
C5_FeedOnlyGrows ==
  [][filter' = filter => Ids(returnedEvents) \subseteq Ids(returnedEvents')]_vars

\* Every relay has disconnected and the feed still holds events.
C5_Witness ==
  /\ lastOp.op = "disconnect"
  /\ connectedRelays = <<>>
  /\ Len(returnedEvents) > 1

\* C6: no relay ever has two live subscriptions, and a connect signal that
\* puts the relay into connectedRelays creates exactly one subscription on it.
C6_OneLiveSubPerRelay ==
  /\ \A s, t \in LiveSubs : subs[s].relay = subs[t].relay => s = t
  /\ (lastOp.op = "connect" /\ lastOp.relay \in Range(connectedRelays))
       => Cardinality(CallsOf("relay.sub", lastOp.relay)) = 1

\* A second relay has joined while the first was subscribed.
C6_Witness ==
  /\ lastOp.op = "connect"
  /\ Len(connectedRelays) = 2
  /\ CallsOf("sub.unsub", connectedRelays[1]) # {}

\* C7: publish calls relay.publish once on each relay of connectedRelays and
\* on no other, returns one handle per call, never throws; no other handler
\* publishes.
C7_PublishToConnected ==
  /\ lastOp.op = "publish" =>
       /\ \A r \in Relays :
            Cardinality(CallsOf("relay.publish", r)) =
              IF r \in Range(connectedRelays) THEN 1 ELSE 0
       /\ \A r \in Relays : conn[r] # "connected" => CallsOf("relay.publish", r) = {}
       /\ \A i \in DOMAIN calls :
            calls[i].call = "relay.publish" /\ calls[i].arg = lastOp.arg
       /\ lastOp.ret = Len(connectedRelays)
       /\ ~lastOp.threw
  /\ lastOp.op # "publish" =>
       \A i \in DOMAIN calls : calls[i].call # "relay.publish"

\* publish with one relay connected and the other one disconnected.
C7_Witness ==
  /\ lastOp.op = "publish"
  /\ Len(connectedRelays) = 1
  /\ \E r \in Relays : conn[r] = "closed"

\* C8 (as claimed): after a call of unsubscribe no subscription is live.
C8_UnsubscribeCancelsAll ==
  lastOp.op = "unsubscribe" => LiveSubs = {}

\* C9 (as claimed): a call of unsubscribe never throws, and a second call
\* in a row changes nothing.
C9_UnsubscribeSafe ==
  [][lastOp'.op = "unsubscribe" =>
       /\ ~lastOp'.threw
       /\ lastOp.op = "unsubscribe" => UNCHANGED <<hookVars, poolVars>>]_vars

\* C10 (as claimed): a connect (disconnect) signal invokes the observer
\* registered last, once, with the relay, and no other.
C10_LatestObserverInvoked ==
  /\ (lastOp.op = "connect" /\ registered.onConnect # Null) =>
       SelectSeq(calls, LAMBDA c : c.call = "onConnect")
         = Notify("onConnect", registered.onConnect, lastOp.relay, 0)
  /\ (lastOp.op = "disconnect" /\ registered.onDisconnect # Null) =>
       SelectSeq(calls, LAMBDA c : c.call = "onDisconnect")
         = Notify("onDisconnect", registered.onDisconnect, lastOp.relay, 0)

\* C11 (as claimed): a delivered event invokes the registered onEvent
\* observer once when its id is new to the merged buffer, and not at all
\* when the buffer already holds that id.
C11_ObserverOncePerNewEvent ==
  [][(lastOp'.op = "event" /\ registered.onEvent # Null) =>
       SelectSeq(calls', LAMBDA c : c.call = "onEvent")
         = IF lastOp'.arg \in Ids(events)
             THEN <<>>
             ELSE Notify("onEvent", registered.onEvent, lastOp'.relay, lastOp'.arg)]_vars

\* C12: a filter change calls sub.unsub on every subscription that was live
\* before it, each before the first relay.sub of the new effect run, and the
\* subscriptions live after it are only those just issued: none issued
\* before the change is live next to one issued after it.
C12_NoOverlapOnFilterChange ==
  [][lastOp'.op = "filter" =>
       /\ \A s \in LiveSubs :
            \E i \in DOMAIN calls' :
              /\ calls'[i] = Call("sub.unsub", subs[s].relay, s)
              /\ \A j \in DOMAIN calls' : calls'[j].call = "relay.sub" => i < j
       /\ Cardinality({s \in SubIds : subs'[s].live})
            = Cardinality({j \in DOMAIN calls' : calls'[j].call = "relay.sub"})]_vars

\* The filter has changed with both relays subscribed: two subscriptions
\* were cancelled and two issued.
C12_Witness ==
  /\ lastOp.op = "filter"
  /\ Cardinality({i \in DOMAIN calls : calls[i].call = "sub.unsub"}) = 2
  /\ Cardinality({i \in DOMAIN calls : calls[i].call = "relay.sub"}) = 2
  /\ Cardinality(LiveSubs) = 2

\* C13 (as claimed): every live subscription was issued with the filter of
\* the hook's current render.
C13_SubsUseCurrentFilter ==
  \A s \in LiveSubs : subs[s].filter = filter

\* C14 (as claimed): right after a filter change the feed is empty: nothing
\* merged under the previous filter remains in it.
C14_FilterChangeClearsFeed ==
  lastOp.op = "filter" => returnedEvents = <<>>

\* C15 (as claimed): however often the mount effect runs, relayInit is
\* called at most once per distinct url of relayUrls, and no two relay
\* handles dialled have the same url.
C15_OneDialPerUrl ==
  /\ lastOp.op = "mount" =>
       \A i, j \in DOMAIN calls :
         (/\ calls[i].call = "relayInit"
          /\ calls[j].call = "relayInit"
          /\ relayUrls[calls[i].relay] = relayUrls[calls[j].relay]) => i = j
  /\ \A r, q \in Relays :
       (conn[r] # "none" /\ conn[q] # "none" /\ relayUrls[r] = relayUrls[q]) => r = q

\* C16 (as claimed): a connect or disconnect signal of one relay leaves the
\* live subscription of every other relay that stays connected alone:
\* sub.unsub is not called on it and no new relay.sub is made on its relay.
C16_OtherSubsUntouched ==
  [][lastOp'.op \in {"connect", "disconnect"} =>
       \A s \in LiveSubs :
         (subs[s].relay # lastOp'.relay /\ conn'[subs[s].relay] = "connected") =>
           \A i \in DOMAIN calls' :
             /\ calls'[i] # Call("sub.unsub", subs[s].relay, s)
             /\ calls'[i] # Call("relay.sub", subs[s].relay, subs[s].filter)]_vars

\* C17: after a connect or disconnect signal (a relay joins, leaves or
\* comes back) the relays holding a live subscription are exactly the relays
\* of connectedRelays, whatever was unsubscribed before; so a relay that
\* reconnects has a live subscription again. When no url is listed twice,
\* these are exactly the relays whose transport is connected.
C17_SubsTrackConnected ==
  lastOp.op \in {"connect", "disconnect"} =>
    /\ {subs[s].relay : s \in LiveSubs} = Range(connectedRelays)
    /\ (\A r, q \in Relays : relayUrls[r] = relayUrls[q] => r = q) =>
         {subs[s].relay : s \in LiveSubs} = {r \in Relays : conn[r] = "connected"}
    /\ (lastOp.op = "connect" /\ lastOp.relay \in Range(connectedRelays)) =>
         \E s \in LiveSubs : subs[s].relay = lastOp.relay

\* A reconnect: the relay delivered events earlier (no other relay has
\* connected yet), went away, and has just connected again.
C17_Witness ==
  /\ lastOp.op = "connect"
  /\ events # <<>>
  /\ \A r \in Relays : r # lastOp.relay => conn[r] = "connecting"
  /\ \E s \in LiveSubs : subs[s].relay = lastOp.relay

\* C18: no two entries of connectedRelays have the same url, after any
\* sequence of connect, disconnect and error signals.
C18_ConnectedUrlsDistinct ==
  \A i, j \in DOMAIN connectedRelays :
    relayUrls[connectedRelays[i]] = relayUrls[connectedRelays[j]] => i = j

\* A relay has just connected whose url is already in connectedRelays (a
\* second connect signal for that url) and both relays are connected.
C18_Witness ==
  /\ lastOp.op = "connect"
  /\ \E r \in Range(connectedRelays) :
       r # lastOp.relay /\ relayUrls[r] = relayUrls[lastOp.relay]
  /\ \A r \in Relays : conn[r] = "connected"

\* C19 (as claimed): connectedRelays holds exactly the relay handles whose
\* last lifecycle signal was connect, and an error signal changes nothing
\* of the pool.
C19_ConnectedRelaysIsConnectedSet ==
  /\ Range(connectedRelays) = {r \in Relays : conn[r] = "connected"}
  /\ lastOp.op = "error" => calls = <<>>

\* C20: isLoading starts true, changes only at a connect signal and only
\* to false, and is false after every connect signal: it never returns to
\* true, whatever disconnects afterwards.
C20_IsLoadingLatch ==
  /\ [](lastOp.op = "init" => isLoading)
  /\ [](isLoading => connectedRelays = <<>>)
  /\ [][/\ isLoading' # isLoading => (isLoading /\ lastOp'.op = "connect")
        /\ lastOp'.op = "connect" => ~isLoading'
        /\ ~isLoading => ~isLoading']_vars

\* Every relay that connected has disconnected again: connectedRelays is
\* empty and isLoading is still false.
C20_Witness ==
  /\ ~isLoading
  /\ lastOp.op = "disconnect"
  /\ connectedRelays = <<>>
  /\ \A r \in Relays : conn[r] = "closed"

====
